---- MODULE Spec2Model ----
(***************************************************************************)
(* PromiseMap (src/containers/promise_map.ts): a key-value store whose     *)
(* values are Promises, with inspection of their settlement state,         *)
(* external resolve/reject and timed deletion.                             *)
(*                                                                         *)
(* The two Maps are functions whose DOMAIN is the set of keys they hold.   *)
(* Promises are the elements of the sequence fut (a Promise's identity is  *)
(* its index), timers are the records of the set timers, and the           *)
(* continuations of doResolve that have not run yet are the records of     *)
(* the set adoptions.  Public methods run to completion; a continuation    *)
(* or a timer callback runs as a step of its own.                          *)
(***************************************************************************)
EXTENDS FiniteSets, Integers, Sequences, TLC

VARIABLES promises, data, timeout, fut, adoptions, timers

vars == <<promises, data, timeout, fut, adoptions, timers>>

\* Bound on the number of Promises created in one behaviour.
MaxFutures == 3

Keys == {"k1", "k2"}
\* Plain (not Promise-like) values handed to resolve.
Values == {"v1"}
\* A Promise-like value handed to resolve; it settles later, either way.
Thenable == "thenable"
Reasons == {"r1"}
\* new Error("deleted")
Deleted == "deleted"
Undefined == "undefined"
TimeoutValues == {Undefined, "ms50"}
NoVal == "-"

\* interface MapData: status is a State (Pending, Fulfilled, Rejected);
\* functions and timer are optional, 0 stands for a missing field;
\* functions holds the Promise its resolve/reject settle.
MapData(status, functions, timer) ==
    [status |-> status, functions |-> functions, timer |-> timer]

\* Map.prototype.set
MapSet(m, k, v) == [x \in (DOMAIN m) \cup {k} |-> IF x = k THEN v ELSE m[x]]

\* Map.prototype.delete
MapDelete(m, k) == [x \in (DOMAIN m) \ {k} |-> m[x]]

\* The object state the methods work on.
Cur ==
    [promises |-> promises, data |-> data, fut |-> fut,
     adoptions |-> adoptions, timers |-> timers]

\* A Promise that is pending and whose resolve function was not called.
NewPromise == [st |-> "pending", val |-> NoVal, follows |-> 0]

\* Promise.reject(reason)
RejectedPromise(reason) == [st |-> "rejected", val |-> reason, follows |-> 0]

\* The settlement a Promise shows to whoever awaits it: a Promise resolved
\* with another Promise follows it.
FutState(f, p) == IF f[p].follows # 0 THEN f[f[p].follows] ELSE f[p]

\* PromiseFunctions.resolve called with a Promise d: the first call of
\* resolve or reject decides, later calls are ignored.
FunctionsResolve(f, p, d) ==
    IF f[p].st = "pending" /\ f[p].follows = 0
    THEN [f EXCEPT ![p].follows = d]
    ELSE f

\* PromiseFunctions.reject
FunctionsReject(f, p, reason) ==
    IF f[p].st = "pending" /\ f[p].follows = 0
    THEN [f EXCEPT ![p].st = "rejected", ![p].val = reason]
    ELSE f

\* Mutant of clearTimeout: the timer is left scheduled.
clearTimeout_m(ts, id) == ts

\* clearTimeout
clearTimeout(ts, id) == {t \in ts : t.id # id}

\* A new Timer object: distinct from every timer that is outstanding or
\* still referenced by the metadata.
NewTimer(S) ==
    LET used == {t.id : t \in S.timers}
                \cup {S.data[k].timer : k \in DOMAIN S.data}
    IN  CHOOSE i \in 1..(Cardinality(used) + 1) : i \notin used

\* has
has(k) == k \in DOMAIN promises

\* isPending
isPending(k) == k \in DOMAIN data /\ data[k].status = "Pending"

\* isFulfilled
isFulfilled(k) == k \in DOMAIN data /\ data[k].status = "Fulfilled"

\* isRejected
isRejected(k) == k \in DOMAIN data /\ data[k].status = "Rejected"

\* getRaw: "undefined", the pair found, or one of its two errors.
getRaw(S, k) ==
    IF k \notin DOMAIN S.promises /\ k \notin DOMAIN S.data THEN Undefined
    ELSE IF k \notin DOMAIN S.promises THEN "PromiseUndefined"
    ELSE IF k \notin DOMAIN S.data THEN "DataUndefined"
    ELSE "found"

\* The errors of getRaw.
RawErrors == {"PromiseUndefined", "DataUndefined"}

\* Mutant of setTimeout: no timer is scheduled.
setTimeout_m(S, k) == S

\* setTimeout (the private method): the timer's owner field records the
\* Promise stored under the key when the timer was made.
setTimeout(S, k) ==
    IF k \notin DOMAIN S.data \/ timeout = Undefined THEN S
    ELSE LET d == S.data[k]
             id == NewTimer(S)
             kept == IF d.timer # 0 THEN clearTimeout(S.timers, d.timer)
                     ELSE S.timers
             owner == IF k \in DOMAIN S.promises THEN S.promises[k] ELSE 0
         IN  [S EXCEPT !.data = MapSet(@, k, [d EXCEPT !.timer = id]),
                       !.timers = kept \cup
                                  {[id |-> id, key |-> k, owner |-> owner]}]

\* doResolve: Promise.resolve(value).then(...).catch(...) is a new pending
\* Promise, Len(S.fut) + 1, whose continuation is yet to run.
doResolve(S, k, value) ==
    [S EXCEPT !.fut = Append(@, NewPromise),
              !.adoptions = @ \cup {[fut |-> Len(S.fut) + 1, key |-> k,
                                     value |-> value]}]

\* Mutant of alreadySettled: the status is not looked at.
alreadySettled_m(d) == d.functions = 0

\* The test of resolve and reject that throws "already settled".
alreadySettled(d) == d.status # "Pending" \/ d.functions = 0

\* The metadata resolve stores for a placeholder: the spread of data with
\* status Pending, without functions.
resolvedData(d) == MapData("Pending", 0, d.timer)

\* Mutant of resolve: doResolve is called before the test that throws.
resolve_m(S, k, value) ==
    LET raw == getRaw(S, k) IN
    IF raw \in RawErrors THEN [S |-> S, ret |-> raw]
    ELSE IF raw = "found"
    THEN LET d == S.data[k]
             S1 == doResolve(S, k, value)
         IN
         IF alreadySettled(d) THEN [S |-> S1, ret |-> "AlreadySettled"]
         ELSE LET S2 == [S1 EXCEPT !.fut = FunctionsResolve(@, d.functions,
                                                            Len(S.fut) + 1)]
                  S3 == [S2 EXCEPT !.data =
                             MapSet(@, k, resolvedData(d))]
              IN  [S |-> setTimeout(S3, k), ret |-> "false"]
    ELSE LET S1 == doResolve(S, k, value)
             S2 == [S1 EXCEPT !.promises = MapSet(@, k, Len(S.fut) + 1)]
             S3 == [S2 EXCEPT !.data = MapSet(@, k, MapData("Pending", 0, 0))]
         IN  [S |-> setTimeout(S3, k), ret |-> "true"]

\* resolve
resolve(S, k, value) ==
    LET raw == getRaw(S, k) IN
    IF raw \in RawErrors THEN [S |-> S, ret |-> raw]
    ELSE IF raw = "found"
    THEN LET d == S.data[k] IN
         IF alreadySettled(d) THEN [S |-> S, ret |-> "AlreadySettled"]
         ELSE LET S1 == doResolve(S, k, value)
                  S2 == [S1 EXCEPT !.fut = FunctionsResolve(@, d.functions,
                                                            Len(S.fut) + 1)]
                  S3 == [S2 EXCEPT !.data =
                             MapSet(@, k, resolvedData(d))]
              IN  [S |-> setTimeout(S3, k), ret |-> "false"]
    ELSE LET S1 == doResolve(S, k, value)
             S2 == [S1 EXCEPT !.promises = MapSet(@, k, Len(S.fut) + 1)]
             S3 == [S2 EXCEPT !.data = MapSet(@, k, MapData("Pending", 0, 0))]
         IN  [S |-> setTimeout(S3, k), ret |-> "true"]

\* Mutant of rejectedData: functions is not removed.
rejectedData_m(d) == MapData("Rejected", d.functions, d.timer)

\* The metadata reject stores for a placeholder: the spread of data with
\* status Rejected, without functions.
rejectedData(d) == MapData("Rejected", 0, d.timer)

\* reject
reject(S, k, reason) ==
    LET raw == getRaw(S, k) IN
    IF raw \in RawErrors THEN [S |-> S, ret |-> raw]
    ELSE IF raw = "found"
    THEN LET d == S.data[k] IN
         IF alreadySettled(d) THEN [S |-> S, ret |-> "AlreadySettled"]
         ELSE LET S1 == [S EXCEPT !.fut = FunctionsReject(@, d.functions,
                                                          reason)]
                  S2 == [S1 EXCEPT !.data =
                             MapSet(@, k, rejectedData(d))]
              IN  [S |-> setTimeout(S2, k), ret |-> "false"]
    ELSE LET S1 == [S EXCEPT !.fut = Append(@, RejectedPromise(reason))]
             S2 == [S1 EXCEPT !.promises = MapSet(@, k, Len(S.fut) + 1)]
             S3 == [S2 EXCEPT !.data = MapSet(@, k, MapData("Rejected", 0, 0))]
         IN  [S |-> setTimeout(S3, k), ret |-> "true"]

\* Mutant of rejectAllKeys: every Pending entry is selected.
rejectAllKeys_m(S) == {k \in DOMAIN S.data : S.data[k].status = "Pending"}

\* The keys rejectAll selects before it rejects any.
rejectAllKeys(S) ==
    {k \in DOMAIN S.data :
        S.data[k].status = "Pending" /\ S.data[k].functions # 0}

\* The loop of rejectAll: an error of reject ends it.
RECURSIVE rejectEach(_, _, _)
rejectEach(S, keys, reason) ==
    IF keys = {} THEN [S |-> S, ret |-> "count"]
    ELSE LET k == CHOOSE x \in keys : TRUE
             r == reject(S, k, reason)
         IN  IF r.ret \in RawErrors \cup {"AlreadySettled"} THEN r
             ELSE rejectEach(r.S, keys \ {k}, reason)

\* rejectAll
rejectAll(S, reason) ==
    LET keys == rejectAllKeys(S)
        r == rejectEach(S, keys, reason)
    IN  [S |-> r.S, ret |-> r.ret, n |-> Cardinality(keys)]

\* Mutant of placeholderData: the functions are not stored.
placeholderData_m(p) == MapData("Pending", 0, 0)

\* The metadata get stores for a new placeholder p: status Pending and the
\* resolve/reject functions of p, no timer.
placeholderData(p) == MapData("Pending", p, 0)

\* get
get(S, k) ==
    LET raw == getRaw(S, k) IN
    IF raw \in RawErrors THEN [S |-> S, ret |-> raw, n |-> 0]
    ELSE IF raw = "found" THEN [S |-> S, ret |-> "promise",
                                n |-> S.promises[k]]
    ELSE LET p == Len(S.fut) + 1
             S1 == [S EXCEPT !.fut = Append(@, NewPromise)]
             S2 == [S1 EXCEPT !.data = MapSet(@, k, placeholderData(p))]
             S3 == [S2 EXCEPT !.promises = MapSet(@, k, p)]
         IN  [S |-> S3, ret |-> "promise", n |-> p]

\* Mutant of rejectDeleted: the placeholder is not rejected.
rejectDeleted_m(S, d) == S

\* delete, first step: a placeholder that still has its functions is
\* rejected with the deletion error.
rejectDeleted(S, d) ==
    IF d.functions # 0
    THEN [S EXCEPT !.fut = FunctionsReject(@, d.functions, Deleted)]
    ELSE S

\* Mutant of cancelTimer: the timer of the entry is not cleared.
cancelTimer_m(S, d) == S

\* delete, second step: the timer of the entry is cleared.
cancelTimer(S, d) ==
    IF d.timer # 0
    THEN [S EXCEPT !.timers = clearTimeout(@, d.timer)]
    ELSE S

\* delete
delete(S, k) ==
    LET raw == getRaw(S, k) IN
    IF raw = Undefined THEN [S |-> S, ret |-> "false"]
    ELSE IF raw \in RawErrors THEN [S |-> S, ret |-> raw]
    ELSE LET d == S.data[k]
             S1 == rejectDeleted(S, d)
             S2 == cancelTimer(S1, d)
         IN  [S |-> [S2 EXCEPT !.promises = MapDelete(@, k),
                               !.data = MapDelete(@, k)],
              ret |-> "true"]

\* The keys clear deletes.
clearKeys(S) == DOMAIN S.promises

\* Mutant of deleteEach: the loop ends after the first key.
deleteEach_m(S, keys) ==
    IF keys = {} THEN [S |-> S, ret |-> "count"]
    ELSE [S |-> delete(S, CHOOSE x \in keys : TRUE).S, ret |-> "count"]

\* The loop of clear: an error of delete ends it.
RECURSIVE deleteEach(_, _)
deleteEach(S, keys) ==
    IF keys = {} THEN [S |-> S, ret |-> "count"]
    ELSE LET k == CHOOSE x \in keys : TRUE
             r == delete(S, k)
         IN  IF r.ret \in RawErrors THEN r
             ELSE deleteEach(r.S, keys \ {k})

\* clear
clear(S) ==
    LET keys == clearKeys(S)
        r == deleteEach(S, keys)
    IN  [S |-> r.S, ret |-> r.ret, n |-> Cardinality(keys)]

\* The object a continuation of doResolve spreads: the metadata of the key,
\* or nothing when the key has none.
Spread(S, k) == IF k \in DOMAIN S.data THEN S.data[k] ELSE MapData("-", 0, 0)

\* The continuations of doResolve: then on success, catch on failure.
settle(S, a, st, v) ==
    [S EXCEPT !.data = MapSet(@, a.key,
                              [Spread(S, a.key) EXCEPT !.status =
                                  IF st = "fulfilled" THEN "Fulfilled"
                                  ELSE "Rejected"]),
              !.fut = [@ EXCEPT ![a.fut].st = st, ![a.fut].val = v],
              !.adoptions = @ \ {a}]

\* The ways the value of an adoption can settle.
Outcomes(value) ==
    IF value = Thenable
    THEN ({"fulfilled"} \X Values) \cup ({"rejected"} \X Reasons)
    ELSE {<<"fulfilled", value>>}

Store(S) ==
    /\ promises' = S.promises
    /\ data' = S.data
    /\ fut' = S.fut
    /\ adoptions' = S.adoptions
    /\ timers' = S.timers
    /\ UNCHANGED timeout

Init ==
    /\ promises = <<>>
    /\ data = <<>>
    /\ timeout \in TimeoutValues
    /\ fut = <<>>
    /\ adoptions = {}
    /\ timers = {}

Resolve(k, value) ==
    LET r == resolve(Cur, k, value) IN
    /\ Len(r.S.fut) <= MaxFutures
    /\ Store(r.S)

Reject(k, reason) ==
    LET r == reject(Cur, k, reason) IN
    /\ Len(r.S.fut) <= MaxFutures
    /\ Store(r.S)

RejectAll(reason) ==
    LET r == rejectAll(Cur, reason) IN
    /\ Store(r.S)

Get(k) ==
    LET r == get(Cur, k) IN
    /\ Len(r.S.fut) <= MaxFutures
    /\ Store(r.S)

Delete(k) ==
    LET r == delete(Cur, k) IN
    /\ Store(r.S)

Clear ==
    LET r == clear(Cur) IN
    /\ Store(r.S)

\* A continuation of doResolve runs.
Settle(a, o) ==
    /\ a \in adoptions
    /\ o \in Outcomes(a.value)
    /\ Store(settle(Cur, a, o[1], o[2]))

\* A timer fires and runs its callback, delete(key).  The continuation of
\* a plain value is a microtask: it runs before any timer callback.
TimerFires(t) ==
    /\ t \in timers
    /\ \A a \in adoptions : a.value = Thenable
    /\ LET r == delete([Cur EXCEPT !.timers = @ \ {t}], t.key) IN
       /\ Store(r.S)

\* The continuation for a plain value runs: it was queued as a microtask
\* when resolve was called, and microtasks run in the order they were
\* queued.
SettlePlain ==
    \E a \in adoptions :
        /\ a.value # Thenable
        /\ \A b \in adoptions : b.value # Thenable => a.fut <= b.fut
        /\ Settle(a, <<"fulfilled", a.value>>)

\* A Promise-like value settles and the continuation runs.
SettleThenable ==
    \E a \in adoptions, o \in Outcomes(Thenable) :
        a.value = Thenable /\ Settle(a, o)

\* The timer scheduled for key k fires.
TimerFiresKey(k) == \E t \in timers : t.key = k /\ TimerFires(t)

Next ==
    \/ \E k \in Keys, value \in Values \cup {Thenable} : Resolve(k, value)
    \/ \E k \in Keys, reason \in Reasons : Reject(k, reason)
    \/ \E reason \in Reasons : RejectAll(reason)
    \/ \E k \in Keys : Get(k)
    \/ \E k \in Keys : Delete(k)
    \/ Clear
    \/ SettlePlain
    \/ SettleThenable
    \/ \E k \in Keys : TimerFiresKey(k)

Spec == Init /\ [][Next]_vars

\* The steps of a program that never calls delete or clear.
NextNoDelete ==
    \/ \E k \in Keys, value \in Values \cup {Thenable} : Resolve(k, value)
    \/ \E k \in Keys, reason \in Reasons : Reject(k, reason)
    \/ \E reason \in Reasons : RejectAll(reason)
    \/ \E k \in Keys : Get(k)
    \/ SettlePlain
    \/ SettleThenable
    \/ \E k \in Keys : TimerFiresKey(k)

\* The host runs every queued microtask and fires every timer that stays
\* scheduled; a Promise-like value handed to resolve may never settle.
FairSpec ==
    Spec /\ WF_vars(SettlePlain) /\ \A k \in Keys : WF_vars(TimerFiresKey(k))

\* The same host running a program that never calls delete or clear.
NoDeleteFairSpec ==
    /\ Init
    /\ [][NextNoDelete]_vars
    /\ WF_vars(SettlePlain)
    /\ \A k \in Keys : WF_vars(TimerFiresKey(k))

(***************************************************************************)
(* Properties.  A method's result in a state is the value of its operator  *)
(* on Cur: r.ret is what it returns or the error it throws, r.S the state  *)
(* it leaves.                                                              *)
(***************************************************************************)

\* C1: in every reachable state a key is in the Promise map if and only if
\* it is in the metadata map, so that no public method fails with one of
\* the two consistency errors of getRaw.
C1_MapsAgree ==
    /\ \A k \in Keys : (k \in DOMAIN promises) <=> (k \in DOMAIN data)
    /\ \A k \in Keys :
          /\ resolve(Cur, k, Thenable).ret \notin RawErrors
          /\ \A reason \in Reasons : reject(Cur, k, reason).ret \notin RawErrors
          /\ get(Cur, k).ret \notin RawErrors
          /\ delete(Cur, k).ret \notin RawErrors
    /\ \A reason \in Reasons : rejectAll(Cur, reason).ret \notin RawErrors
    /\ clear(Cur).ret \notin RawErrors

\* C2: once the status stored under a key is Fulfilled or Rejected, no step
\* changes it to a different status; it stays or the entry is removed.
C2_StatusTerminal ==
    [][\A k \in Keys :
          (/\ k \in DOMAIN data
           /\ data[k].status \in {"Fulfilled", "Rejected"}
           /\ k \in DOMAIN data')
          => data'[k].status = data[k].status]_vars

\* C3: resolve and reject on a key that is present fail with "already
\* settled" exactly when the entry is not (Pending with functions present).
C3_AlreadySettledExactly ==
    \A k \in Keys :
       (k \in DOMAIN promises /\ k \in DOMAIN data)
       => LET settleable == data[k].status = "Pending"
                            /\ data[k].functions # 0
          IN  /\ \A value \in Values \cup {Thenable} :
                    (resolve(Cur, k, value).ret = "AlreadySettled")
                    <=> ~settleable
              /\ \A reason \in Reasons :
                    (reject(Cur, k, reason).ret = "AlreadySettled")
                    <=> ~settleable

\* C3 witness: a key created by a direct resolve whose adoption is still in
\* flight, on which a second resolve and a reject fail.
C3_Witness ==
    \E k \in DOMAIN promises, a \in adoptions :
       /\ k \in DOMAIN data
       /\ a.fut = promises[k]
       /\ data[k].status = "Pending"
       /\ resolve(Cur, k, Thenable).ret = "AlreadySettled"
       /\ reject(Cur, k, "r1").ret = "AlreadySettled"

\* C4: a successful resolve(k, v) returns true exactly when k was absent;
\* right after it k is present with status Pending and no functions; and the
\* status of an entry stays Pending for as long as the adoption of v, the
\* one whose Promise the entry holds or follows, has not completed.
C4_ResolveKeepsPending ==
    /\ \A k \in Keys, value \in Values \cup {Thenable} :
          LET r == resolve(Cur, k, value) IN
          r.ret \in {"true", "false"}
          => /\ (r.ret = "true") <=> (k \notin DOMAIN promises)
             /\ k \in DOMAIN r.S.promises
             /\ k \in DOMAIN r.S.data
             /\ r.S.data[k].status = "Pending"
             /\ r.S.data[k].functions = 0
    /\ \A a \in adoptions :
          (/\ a.key \in DOMAIN promises
           /\ a.key \in DOMAIN data
           /\ \/ promises[a.key] = a.fut
              \/ fut[promises[a.key]].follows = a.fut)
          => data[a.key].status = "Pending"

\* C5: a successful reject(k, reason) returns true exactly when k was
\* absent; right after it k is present with status Rejected and no
\* functions, holding the Promise it held before if it held one, and that
\* Promise is rejected with reason.
C5_RejectImmediate ==
    \A k \in Keys, reason \in Reasons :
       LET r == reject(Cur, k, reason) IN
       r.ret \in {"true", "false"}
       => /\ (r.ret = "true") <=> (k \notin DOMAIN promises)
          /\ k \in DOMAIN r.S.promises
          /\ k \in DOMAIN r.S.data
          /\ r.S.data[k].status = "Rejected"
          /\ r.S.data[k].functions = 0
          /\ k \in DOMAIN promises => r.S.promises[k] = promises[k]
          /\ FutState(r.S.fut, r.S.promises[k]).st = "rejected"
          /\ FutState(r.S.fut, r.S.promises[k]).val = reason

\* C5 witness: a pending placeholder created by get, which reject settles.
C5_Witness ==
    \E k \in DOMAIN data :
       /\ data[k].status = "Pending"
       /\ data[k].functions # 0
       /\ reject(Cur, k, "r1").ret = "false"
       /\ reject(Cur, k, "r1").S.data[k].status = "Rejected"

\* C6: after get(k) on an absent key and resolve(k, v) with a plain v, the
\* placeholder follows the adoption of v; isPending(k) is true until that
\* adoption completes, and eventually the Promise get returned is fulfilled
\* with v and, unless the entry was removed first, isFulfilled(k) is true.
C6_GetThenResolve ==
    /\ [](\A a \in adoptions :
             (/\ a.value # Thenable
              /\ a.key \in DOMAIN promises
              /\ fut[promises[a.key]].follows = a.fut)
             => isPending(a.key))
    /\ \A k \in Keys, p \in 1..MaxFutures, v \in Values :
          (/\ k \in DOMAIN promises
           /\ promises[k] = p
           /\ \E a \in adoptions :
                 a.key = k /\ a.value = v /\ fut[p].follows = a.fut)
          ~> (/\ p <= Len(fut)
              /\ FutState(fut, p).st = "fulfilled"
              /\ FutState(fut, p).val = v
              /\ \/ isFulfilled(k)
                 \/ k \notin DOMAIN promises
                 \/ promises[k] # p)

\* C7: rejectAll never fails; it returns the number of entries that were
\* Pending with functions present, leaves each of them Rejected without
\* functions, and leaves the status and functions of every other entry.
C7_RejectAll ==
    \A reason \in Reasons :
       LET r == rejectAll(Cur, reason) IN
       /\ r.ret = "count"
       /\ r.n = Cardinality({k \in DOMAIN data :
                    data[k].status = "Pending" /\ data[k].functions # 0})
       /\ \A k \in DOMAIN data :
             /\ k \in DOMAIN r.S.data
             /\ IF data[k].status = "Pending" /\ data[k].functions # 0
                THEN r.S.data[k].status = "Rejected"
                     /\ r.S.data[k].functions = 0
                ELSE r.S.data[k].status = data[k].status
                     /\ r.S.data[k].functions = data[k].functions

\* C7 witness: a pending placeholder next to an entry that is Pending in the
\* middle of an adoption; rejectAll counts one.
C7_Witness ==
    \E k1 \in DOMAIN data, k2 \in DOMAIN data :
       /\ data[k1].status = "Pending" /\ data[k1].functions # 0
       /\ data[k2].status = "Pending" /\ data[k2].functions = 0
       /\ rejectAll(Cur, "r1").n = 1
       /\ rejectAll(Cur, "r1").S.data[k2].status = "Pending"

C9_Clear ==
    LET r == clear(Cur) IN
    /\ r.ret = "count"
    /\ r.n = Cardinality(DOMAIN promises)
    /\ \A k \in DOMAIN promises :
          /\ k \notin DOMAIN r.S.promises
          /\ \A t \in r.S.timers : t.key # k
          /\ (k \in DOMAIN data /\ data[k].functions # 0)
             => /\ FutState(r.S.fut, promises[k]).st = "rejected"
                /\ FutState(r.S.fut, promises[k]).val = Deleted

\* C9 witness: two keys present, one a pending placeholder and one with an
\* outstanding timer; clear counts two.
C9_Witness ==
    /\ Cardinality(DOMAIN promises) = 2
    /\ \E k \in DOMAIN data : data[k].functions # 0
    /\ timers # {}
    /\ clear(Cur).n = 2
    /\ clear(Cur).S.timers = {}

\* C10: a successful resolve or reject leaves has(k) true, the entry
\* without functions and, with a timeout configured, with its timer
\* outstanding; has(k) then eventually becomes false.  With no timeout
\* configured an entry is removed only by delete or clear.
C10_Eviction ==
    /\ [](\A k \in Keys, value \in Values \cup {Thenable} \cup Reasons :
             LET r == IF value \in Reasons THEN reject(Cur, k, value)
                      ELSE resolve(Cur, k, value)
             IN  r.ret \in {"true", "false"}
                 => /\ k \in DOMAIN r.S.promises
                    /\ r.S.data[k].functions = 0
                    /\ timeout # Undefined
                       => \E t \in r.S.timers :
                             t.key = k /\ t.id = r.S.data[k].timer)
    /\ \A k \in Keys :
          (/\ timeout # Undefined
           /\ k \in DOMAIN promises
           /\ data[k].functions = 0)
          ~> (k \notin DOMAIN promises)
    /\ [](timeout = Undefined => timers = {})
    /\ [][\A k \in Keys :
             (/\ timeout = Undefined
              /\ k \in DOMAIN promises
              /\ k \notin DOMAIN promises')
             => ((\E j \in Keys : Delete(j)) \/ Clear)]_vars

\* C10 witness: with a timeout configured, an entry that resolve or reject
\* has settled and whose timer is outstanding.
C10_Witness ==
    /\ timeout # Undefined
    /\ \E k \in DOMAIN promises, t \in timers :
          /\ data[k].functions = 0
          /\ t.key = k
          /\ t.id = data[k].timer

\* C11: each of isPending, isFulfilled, isRejected is true exactly when
\* has(k) is true and the status matches: when has(k) is false all three
\* are false, when has(k) is true exactly one of them is true.
C11_StatusQueries ==
    \A k \in Keys :
       /\ ~has(k) => (~isPending(k) /\ ~isFulfilled(k) /\ ~isRejected(k))
       /\ has(k) => Cardinality({q \in {"Pending", "Fulfilled", "Rejected"} :
                        k \in DOMAIN data /\ data[k].status = q}) = 1

C13_OneTimerPerKey ==
    \A t \in timers :
       /\ \A u \in timers : u.key = t.key => u = t
       /\ t.key \in DOMAIN data
       /\ data[t.key].timer = t.id

\* C13 witness: a timer outstanding for each of two keys, one of them under
\* an entry made after an earlier entry of the same key, resolved with its
\* own timer, was removed.
C13_Witness ==
    /\ Cardinality(timers) = 2
    /\ \E t \in timers, a \in adoptions : a.key = t.key /\ a.fut < t.owner

\* C14: an entry whose metadata holds functions has status Pending, and it
\* is a placeholder made by get that no resolve or reject has targeted: its
\* Promise is the one the functions settle and is still pending.
C14_HandlesOnlyPending ==
    \A k \in DOMAIN data :
       data[k].functions # 0
       => /\ data[k].status = "Pending"
          /\ k \in DOMAIN promises
          /\ promises[k] = data[k].functions
          /\ fut[promises[k]].st = "pending"
          /\ fut[promises[k]].follows = 0

\* C15: with a timeout configured and neither delete nor clear ever
\* called, an entry whose status is Fulfilled or Rejected is eventually
\* destroyed: its key is in neither map and isFulfilled and isRejected are
\* false.
C15_SettledEvicted ==
    \A k \in Keys :
       (timeout # Undefined /\ (isFulfilled(k) \/ isRejected(k)))
       ~> (/\ k \notin DOMAIN promises
           /\ k \notin DOMAIN data
           /\ ~isFulfilled(k)
           /\ ~isRejected(k))

\* C16: no Promise handed out by get is left unsettled once its entry has
\* been removed: a Promise made by get that shows no settlement is still
\* stored under some key.
C16_RemovalSettles ==
    \A p \in 1..Len(fut) :
       (/\ \A a \in adoptions : a.fut # p
        /\ FutState(fut, p).st = "pending")
       => \E k \in DOMAIN promises : promises[k] = p

\* C16 as amended: removing an entry that still holds its functions rejects
\* its Promise with the deletion error, so a Promise made by get on which
\* neither resolve nor reject was called is still stored, with its
\* functions, under some key; a placeholder that resolve has targeted
\* follows the adopted value once removed.
C16_RemovalRejectsUntargeted ==
    /\ \A k \in Keys :
          (k \in DOMAIN promises /\ k \in DOMAIN data
           /\ data[k].functions # 0)
          => LET r == delete(Cur, k) IN
             /\ r.S.fut[data[k].functions].st = "rejected"
             /\ r.S.fut[data[k].functions].val = Deleted
             /\ clear(Cur).S.fut[data[k].functions].st = "rejected"
    /\ \A p \in 1..Len(fut) :
          (/\ \A a \in adoptions : a.fut # p
           /\ fut[p].st = "pending"
           /\ fut[p].follows = 0)
          => \E k \in DOMAIN promises :
                /\ promises[k] = p
                /\ k \in DOMAIN data
                /\ data[k].functions = p

\* C16 witness: a placeholder was removed and rejected with the deletion
\* error, and another one, which resolve had targeted, was removed and
\* still follows a value that has not settled.
C16_Witness ==
    /\ \E p \in 1..Len(fut) :
          /\ fut[p].val = Deleted
          /\ \A k \in DOMAIN promises : promises[k] # p
    /\ \E p \in 1..Len(fut) :
          /\ fut[p].follows # 0
          /\ FutState(fut, p).st = "pending"
          /\ \A k \in DOMAIN promises : promises[k] # p

\* C17: at most one adoption in flight can write the status stored under a
\* given key.
C17_OneAdoptionPerKey ==
    \A a \in adoptions, b \in adoptions : a.key = b.key => a = b

\* C18: a timer that fires and removes an entry removes one whose status is
\* Fulfilled or Rejected; an entry that is still Pending is not removed by
\* a timer.
C18_EvictsOnlySettled ==
    [][\A k \in Keys :
          (/\ TimerFiresKey(k)
           /\ k \in DOMAIN data
           /\ k \notin DOMAIN data')
          => data[k].status \in {"Fulfilled", "Rejected"}]_vars

\* C19: a resolve or reject that fails with "already settled" leaves the
\* whole state as it was: both maps, every status and functions, every
\* timer, every Promise, and no adoption is started.
C19_FailureChangesNothing ==
    \A k \in Keys :
       /\ \A value \in Values \cup {Thenable} :
             resolve(Cur, k, value).ret = "AlreadySettled"
             => resolve(Cur, k, value).S = Cur
       /\ \A reason \in Reasons :
             reject(Cur, k, reason).ret = "AlreadySettled"
             => reject(Cur, k, reason).S = Cur

\* C19 witness: an entry with its timer outstanding on which resolve and
\* reject fail.
C19_Witness ==
    \E k \in DOMAIN data, t \in timers :
       /\ t.key = k
       /\ t.id = data[k].timer
       /\ resolve(Cur, k, Thenable).ret = "AlreadySettled"
       /\ resolve(Cur, k, Thenable).S.timers = timers
       /\ reject(Cur, k, "r1").ret = "AlreadySettled"

\* C20: an outstanding timer belongs to the entry now stored under its
\* key, the one whose resolve or reject scheduled it, and when it fires it
\* removes that entry; no timer of a removed entry is left to fire.
C20_TimerOwnsEntry ==
    \A t \in timers :
       /\ t.key \in DOMAIN promises
       /\ promises[t.key] = t.owner
       /\ LET r == delete([Cur EXCEPT !.timers = @ \ {t}], t.key) IN
          /\ r.ret = "true"
          /\ t.key \notin DOMAIN r.S.promises
          /\ \A j \in DOMAIN promises \ {t.key} :
                j \in DOMAIN r.S.promises /\ r.S.promises[j] = promises[j]

\* C20 witness: a timer outstanding for an entry that was made under a key
\* after an earlier entry of that key, whose adoption is still in flight,
\* was removed.
C20_Witness ==
    \E t \in timers, a \in adoptions :
       /\ a.key = t.key
       /\ a.fut < t.owner
       /\ promises[t.key] = t.owner

====
